---- MODULE Spec2Model ----
(***************************************************************************)
(* Model of the reactive async-state coordination layer of                 *)
(* preact-app-render-01: the API State Record (BaseApiState), the Async    *)
(* Action Executor (AsyncActionManager.executeAsyncAction) and the action  *)
(* helpers (setDefaultApiService, createApiAction, createApiActionFactory).*)
(* The facade the Executor calls is either given by its settlements (the   *)
(* mocked facades of the tests) or is the ApiService of api/client.ts      *)
(* talking over fetch to the Fastify backend of api/index.js.              *)
(*                                                                         *)
(* JavaScript values are records [t, v, x]: t is the runtime type, v the   *)
(* content, x an attached field (originalText of a transformed payload).   *)
(***************************************************************************)
EXTENDS Naturals, Sequences, FiniteSets, TLC

\* ------------------------------------------------------------------ bounds
\* largest number of executions in flight on the record at the same time
MaxInFlight == 2
\* the same, in the specification of the construction paths
MaxHelperInFlight == 1

\* ------------------------------------------------------------ JS values
Undefined == [t |-> "undefined", v |-> "", x |-> ""]
Null == [t |-> "null", v |-> "", x |-> ""]
Str(s) == [t |-> "string", v |-> s, x |-> ""]
Obj(s) == [t |-> "object", v |-> s, x |-> ""]
Fn(name) == [t |-> "function", v |-> name, x |-> ""]
Bool(b) == [t |-> "boolean", v |-> IF b THEN "true" ELSE "false", x |-> ""]
\* a number, written as its decimal text
Num(s) == [t |-> "number", v |-> s, x |-> ""]
\* new Error(m)
Err(m) == [t |-> "error", v |-> m, x |-> ""]

\* JavaScript truthiness of a value (the test of `if (v)`, `v ? a : b`, `v || d`, `!!v`)
Truthy(j) ==
  ~ \/ j.t \in {"undefined", "null"}
    \/ j.t = "string" /\ j.v = ""
    \/ j.t = "boolean" /\ j.v = "false"
    \/ j.t = "number" /\ j.v \in {"0", "NaN"}

\* typeof j === 'function'
IsFunction(j) == j.t = "function"

\* error instanceof Error
InstanceOfError(j) == j.t = "error"

\* ------------------------------------------------------- API State Record
\* new BaseApiState(null): data = initialData, loading = false, error = ''
NewBaseApiState(initialData) == [data |-> initialData, loading |-> FALSE, error |-> ""]

hasData(r) == r.data # Null /\ r.data # Undefined

hasError(r) == r.error # ""

statusErrorFirst(r) ==
  IF r.error # "" THEN "error"
  ELSE IF r.loading THEN "loading"
  ELSE IF hasData(r) THEN "success"
  ELSE "idle"

status(r) ==
  IF r.loading THEN "loading"
  ELSE IF r.error # "" THEN "error"
  ELSE IF hasData(r) THEN "success"
  ELSE "idle"

clearUnlessLoading(r) ==
  [data |-> r.data, loading |-> FALSE, error |-> IF r.loading THEN r.error ELSE ""]

clear(r) == [data |-> r.data, loading |-> FALSE, error |-> ""]

setLoading(r, loading) == [r EXCEPT !.loading = loading]

setDataClearsError(r, data) == [r EXCEPT !.data = data, !.error = ""]

setData(r, data) == [r EXCEPT !.data = data]

setError(r, error) == [r EXCEPT !.error = error]

\* one recorded call of a State Record operation
Op(name, arg) == [op |-> name, arg |-> arg]

ApplyOp(r, o) ==
  CASE o.op = "clear" -> clear(r)
    [] o.op = "setLoading" -> setLoading(r, o.arg.v = "true")
    [] o.op = "setData" -> setData(r, o.arg)
    [] o.op = "setError" -> setError(r, o.arg.v)

RECURSIVE ApplyOps(_, _)
ApplyOps(r, ops) ==
  IF ops = <<>> THEN r ELSE ApplyOps(ApplyOp(r, Head(ops)), Tail(ops))

\* (data) => ({...data, originalText: text})
Attach(text) == [t |-> "function", v |-> "attach", x |-> text]

\* ------------------------------------------------- transform functions
\* what calling transformData(data) does, by the function's name:
\*   identity          (data) => data                       (store/api.ts)
\*   wrap              (data) => ({ ...derived from data }) (async-manager tests)
\*   attach            (data) => ({ ...data, originalText: request.text })
\*   toNull            (data) => null
\*   throwError        () => { throw new Error('Transform error') }
\*   throwEmptyError   () => { throw new Error() }
\*   throwString       () => { throw 'boom' }
\* calling a value that is not a function throws a TypeError
CallTransform(f, data) ==
  IF ~IsFunction(f)
    THEN [threw |-> TRUE, val |-> Err("transformData is not a function")]
  ELSE CASE f.v = "identity" -> [threw |-> FALSE, val |-> data]
         [] f.v = "wrap" -> [threw |-> FALSE, val |-> [t |-> "object", v |-> data.v, x |-> "wrapped"]]
         [] f.v = "attach" -> [threw |-> FALSE, val |-> [t |-> "object", v |-> data.v, x |-> f.x]]
         [] f.v = "toNull" -> [threw |-> FALSE, val |-> Null]
         [] f.v = "throwError" -> [threw |-> TRUE, val |-> Err("Transform error")]
         [] f.v = "throwEmptyError" -> [threw |-> TRUE, val |-> Err("")]
         [] f.v = "throwString" -> [threw |-> TRUE, val |-> Str("boom")]

\* ------------------------------------------------------ facade outcomes
\* how the promise returned by a facade method settles
Resolved(data, error) ==
  [kind |-> "resolve", isObj |-> TRUE, data |-> data, error |-> error, thrown |-> Undefined]
\* the method resolves with undefined instead of a response object
ResolvedUndefined ==
  [kind |-> "resolve", isObj |-> FALSE, data |-> Undefined, error |-> Undefined, thrown |-> Undefined]
Rejected(e) ==
  [kind |-> "reject", isObj |-> FALSE, data |-> Undefined, error |-> Undefined, thrown |-> e]

\* ------------------------------------------------- Async Action Result
\* rejected = TRUE: the promise handed to the caller rejects with `error`
Success(data) == [rejected |-> FALSE, success |-> TRUE, data |-> data, error |-> Undefined]
Failure(msg) == [rejected |-> FALSE, success |-> FALSE, data |-> Undefined, error |-> Str(msg)]
Throws(e) == [rejected |-> TRUE, success |-> FALSE, data |-> Undefined, error |-> e]
NoResult == [rejected |-> FALSE, success |-> FALSE, data |-> Undefined, error |-> Undefined]

\* ------------------------------------------------ Async Action Executor
\* executeAsyncAction up to the facade call: the record operations made
\* before the method is invoked
ExecuteBeginNoLoading == <<Op("clear", Undefined)>>

ExecuteBeginKeepsError == <<Op("setLoading", Bool(TRUE))>>

ExecuteBegin == <<Op("clear", Undefined), Op("setLoading", Bool(TRUE))>>

\* payload ? method(payload) : method()
FacadeArgs(payload) == IF Truthy(payload) THEN <<payload>> ELSE <<>>

\* the one call expression of executeAsyncAction: the facade method is
\* called once, with the argument list FacadeArgs(payload)
InvokeFacadeWithRetry(payload) == <<FacadeArgs(payload), FacadeArgs(payload)>>

InvokeFacade(payload) == <<FacadeArgs(payload)>>

\* the catch block followed by the finally block
CatchLeavesLoading(error) ==
  LET errorMsg == IF InstanceOfError(error) THEN error.v ELSE "Network error"
  IN [ops |-> <<Op("setError", Str(errorMsg))>>,
      result |-> Failure(errorMsg), path |-> "catch"]

CatchUnknownError(error) ==
  LET errorMsg == IF InstanceOfError(error) THEN error.v ELSE "Unknown error"
  IN [ops |-> <<Op("setError", Str(errorMsg)), Op("setLoading", Bool(FALSE))>>,
      result |-> Failure(errorMsg), path |-> "catch"]

Catch(error) ==
  LET errorMsg == IF InstanceOfError(error) THEN error.v ELSE "Network error"
  IN [ops |-> <<Op("setError", Str(errorMsg)), Op("setLoading", Bool(FALSE))>>,
      result |-> Failure(errorMsg), path |-> "catch"]

\* the branch taken when response.data is truthy and the transform returned
SuccessBranchKeepsError(processedData) ==
  [ops |-> <<Op("setData", processedData), Op("setLoading", Bool(FALSE))>>,
   result |-> Success(processedData), path |-> "success"]

SuccessBranch(processedData) ==
  [ops |-> <<Op("setData", processedData), Op("setError", Str("")),
             Op("setLoading", Bool(FALSE))>>,
   result |-> Success(processedData), path |-> "success"]

\* the branch taken when response.data is falsy
ApiErrorBranchResetsData(response) ==
  LET error == IF Truthy(response.error) THEN response.error.v ELSE "Unknown error"
  IN [ops |-> <<Op("setData", Null), Op("setError", Str(error)), Op("setLoading", Bool(FALSE))>>,
      result |-> Failure(error), path |-> "apiError"]

ApiErrorBranchLeavesLoading(response) ==
  LET error == IF Truthy(response.error) THEN response.error.v ELSE "Unknown error"
  IN [ops |-> <<Op("setError", Str(error))>>,
      result |-> Failure(error), path |-> "apiError"]

ApiErrorBranchIfPresent(response) ==
  LET error == IF response.error # Undefined THEN response.error.v ELSE "Unknown error"
  IN [ops |-> <<Op("setError", Str(error)), Op("setLoading", Bool(FALSE))>>,
      result |-> Failure(error), path |-> "apiError"]

ApiErrorBranch(response) ==
  LET error == IF Truthy(response.error) THEN response.error.v ELSE "Unknown error"
  IN [ops |-> <<Op("setError", Str(error)), Op("setLoading", Bool(FALSE))>>,
      result |-> Failure(error), path |-> "apiError"]

\* transformData ? transformData(response.data) : response.data
ProcessData(transformData, data) ==
  IF Truthy(transformData)
    THEN CallTransform(transformData, data)
    ELSE [threw |-> FALSE, val |-> data]

\* executeAsyncAction from the point the awaited facade call settles
ExecuteEndUncaught(transformData, settled) ==
  IF settled.kind = "reject" THEN Catch(settled.thrown)
  ELSE IF ~settled.isObj
    THEN Catch(Err("Cannot read properties of undefined (reading 'data')"))
  ELSE IF Truthy(settled.data)
    THEN LET called == ProcessData(transformData, settled.data)
         IN IF called.threw
              THEN [ops |-> <<Op("setLoading", Bool(FALSE))>>,
                    result |-> Throws(called.val), path |-> "uncaught"]
              ELSE SuccessBranch(called.val)
  ELSE ApiErrorBranch(settled)

ExecuteEnd(transformData, settled) ==
  IF settled.kind = "reject" THEN Catch(settled.thrown)
  ELSE IF ~settled.isObj
    THEN Catch(Err("Cannot read properties of undefined (reading 'data')"))
  ELSE IF Truthy(settled.data)
    THEN LET called == ProcessData(transformData, settled.data)
         IN IF called.threw THEN Catch(called.val) ELSE SuccessBranch(called.val)
  ELSE ApiErrorBranch(settled)

\* --------------------------------------------------------------- helpers
NotInitialized == "Default AsyncActionManager not initialized. Call setDefaultApiService() first."

\* a manager is named by the facade it was constructed with; "null" is no manager
getDefaultAsyncManagerLazy(manager) ==
  IF manager = "null"
    THEN [threw |-> FALSE, manager |-> "s1", error |-> Undefined]
    ELSE [threw |-> FALSE, manager |-> manager, error |-> Undefined]

getDefaultAsyncManager(manager) ==
  IF manager = "null"
    THEN [threw |-> TRUE, manager |-> "null", error |-> Err(NotInitialized)]
    ELSE [threw |-> FALSE, manager |-> manager, error |-> Undefined]

\* the arguments createApiAction's callable passes to executeAsyncAction
createApiActionTruthy(transformOrPayload, maybeTransform) ==
  LET isTransformFunction == Truthy(transformOrPayload)
  IN [transformData |-> IF isTransformFunction THEN transformOrPayload ELSE maybeTransform,
      payload |-> IF isTransformFunction THEN Undefined ELSE transformOrPayload]

createApiAction(transformOrPayload, maybeTransform) ==
  LET isTransformFunction == IsFunction(transformOrPayload)
  IN [transformData |-> IF isTransformFunction THEN transformOrPayload ELSE maybeTransform,
      payload |-> IF isTransformFunction THEN Undefined ELSE transformOrPayload]

\* the arguments a factory callable passes to executeAsyncAction: the inner
\* function takes (apiMethod, stateManager, transformData) and passes no payload
createApiActionFactory(third, fourth) ==
  [transformData |-> third, payload |-> Undefined]

\* ---------------------------------------------------------------- backend
\* a JSON request body {text: ...} is the object whose v is the content of
\* text and whose x is the runtime type of text ("undefined": no text field)
TextRequest(text) == [t |-> "object", v |-> text.v, x |-> text.t]

\* const { text } = request.body
TextOf(body) == [t |-> body.x, v |-> body.v, x |-> ""]

\* Buffer.from(text, 'utf8') for the texts sent to the endpoint
Utf8(text) ==
  CASE text = "" -> <<>>
    [] text = "M" -> <<77>>
    [] text = "Hi" -> <<72, 105>>
    [] text = "Man" -> <<77, 97, 110>>
    [] text = "Hi Man" -> <<72, 105, 32, 77, 97, 110>>

Base64Alphabet ==
  <<"A", "B", "C", "D", "E", "F", "G", "H", "I", "J", "K", "L", "M", "N", "O", "P",
    "Q", "R", "S", "T", "U", "V", "W", "X", "Y", "Z", "a", "b", "c", "d", "e", "f",
    "g", "h", "i", "j", "k", "l", "m", "n", "o", "p", "q", "r", "s", "t", "u", "v",
    "w", "x", "y", "z", "0", "1", "2", "3", "4", "5", "6", "7", "8", "9", "+", "/">>

Sextet(n) == Base64Alphabet[(n % 64) + 1]

\* buffer.toString('base64'): three bytes give four characters, the last
\* group is padded with '='
RECURSIVE ToBase64(_)
ToBase64(bytes) ==
  IF Len(bytes) = 0 THEN ""
  ELSE IF Len(bytes) = 1
    THEN LET n == bytes[1] * 16
         IN Sextet(n \div 64) \o Sextet(n) \o "=="
  ELSE IF Len(bytes) = 2
    THEN LET n == (bytes[1] * 256 + bytes[2]) * 4
         IN Sextet(n \div 4096) \o Sextet(n \div 64) \o Sextet(n) \o "="
  ELSE LET n == (bytes[1] * 256 + bytes[2]) * 256 + bytes[3]
       IN Sextet(n \div 262144) \o Sextet(n \div 4096) \o Sextet(n \div 64) \o Sextet(n)
            \o ToBase64(SubSeq(bytes, 4, Len(bytes)))

\* an HTTP reply: the status and the fields of its JSON body (Undefined: absent)
Reply(code, message, base64, error) ==
  [status |-> code, message |-> message, base64 |-> base64, error |-> error]

InvalidInput == "Invalid input: expected JSON with \"text\" field containing a string"
InternalError == "Internal server error during base64 encoding"

\* GET /api/hello
HelloHandler == Reply(200, Str("Hello from Render with Fastify!"), Undefined, Undefined)

\* POST /api/base64/encode, body the parsed request body (Undefined: none);
\* destructuring an undefined body throws into the catch block
EncodeHandler(body) ==
  IF body = Undefined
    THEN Reply(500, Undefined, Undefined, Str(InternalError))
  ELSE LET text == TextOf(body)
       IN IF ~Truthy(text) \/ text.t # "string"
            THEN Reply(400, Undefined, Undefined, Str(InvalidInput))
            ELSE Reply(200, Undefined, Str(ToBase64(Utf8(text.v))), Undefined)

\* ----------------------------------------------------------- HTTP client
\* what fetch() does: a response arrives, its body being JSON or not, or the
\* promise rejects
NoReply == Reply(0, Undefined, Undefined, Undefined)
Responded(reply, parses) ==
  [kind |-> "response", reply |-> reply, parses |-> parses, thrown |-> Undefined]
FetchRejected(e) == [kind |-> "reject", reply |-> NoReply, parses |-> FALSE, thrown |-> e]

\* response.ok
Ok(reply) == reply.status \in 200..299

\* the value response.json() resolves to: the object holding the reply's field
BodyOf(reply) ==
  IF reply.base64 # Undefined THEN Obj(reply.base64.v)
  ELSE IF reply.message # Undefined THEN Obj(reply.message.v)
  ELSE Obj(reply.error.v)

\* the SyntaxError response.json() rejects with
JsonSyntaxError == Err("Unexpected token '<', \"<!doctype \"... is not valid JSON")

\* the catch block of ApiClient.request
ClientCatch(error) ==
  Resolved(Undefined, Str(IF InstanceOfError(error) THEN error.v ELSE "Unknown error"))

\* ApiClient.request from the point fetch settles
ClientRequestBodyError(fetched) ==
  IF fetched.kind = "reject" THEN ClientCatch(fetched.thrown)
  ELSE IF ~Ok(fetched.reply)
    THEN IF fetched.parses /\ fetched.reply.error # Undefined
           THEN ClientCatch(Err(fetched.reply.error.v))
           ELSE ClientCatch(Err("HTTP error! status: " \o ToString(fetched.reply.status)))
  ELSE IF ~fetched.parses THEN ClientCatch(JsonSyntaxError)
  ELSE Resolved(BodyOf(fetched.reply), Undefined)

ClientRequestRethrows(fetched) ==
  IF fetched.kind = "reject" THEN Rejected(fetched.thrown)
  ELSE IF ~Ok(fetched.reply)
    THEN ClientCatch(Err("HTTP error! status: " \o ToString(fetched.reply.status)))
  ELSE IF ~fetched.parses THEN ClientCatch(JsonSyntaxError)
  ELSE Resolved(BodyOf(fetched.reply), Undefined)

ClientRequest(fetched) ==
  IF fetched.kind = "reject" THEN ClientCatch(fetched.thrown)
  ELSE IF ~Ok(fetched.reply)
    THEN ClientCatch(Err("HTTP error! status: " \o ToString(fetched.reply.status)))
  ELSE IF ~fetched.parses THEN ClientCatch(JsonSyntaxError)
  ELSE Resolved(BodyOf(fetched.reply), Undefined)

\* the HTTP request a facade method sends: getHello is client.get('/hello'),
\* encodeBase64(data) is client.post('/base64/encode', data) with
\* body: data ? JSON.stringify(data) : undefined
Request(verb, endpoint, body) == [verb |-> verb, endpoint |-> endpoint, body |-> body]

FacadeRequest(method, args) ==
  IF method = "getHello"
    THEN Request("GET", "/hello", Undefined)
    ELSE Request("POST", "/base64/encode",
                 IF args # <<>> /\ Truthy(args[1]) THEN args[1] ELSE Undefined)

\* the route that serves a request
Backend(request) ==
  IF request.endpoint = "/hello" THEN HelloHandler ELSE EncodeHandler(request.body)

\* fetch(request) over a network that delivers the request to the backend
\* and its reply back, or does something else
Fetch(request, network) ==
  IF network.delivers THEN Responded(Backend(request), TRUE) ELSE network.outcome

\* ------------------------------------------------------------------ state
VARIABLES
  defaultAsyncManager,  \* helpers.ts module variable: "null" or the facade of the default manager
  factories,            \* per factory: "null" (not created) or the facade of its private manager
  actions,              \* the callables created so far
  rec,                  \* the State Record the callables were created with
  inflight,             \* executions awaiting their facade call, in dispatch order
  last,                 \* the invocation that returned or settled most recently
  recOp,                \* the latest State Record operation called directly, and the status read after it
  net                   \* the latest HTTP exchange: request, what fetch did, what the facade resolved to

vars == <<defaultAsyncManager, factories, actions, rec, inflight, last, recOp, net>>

Services == {"s1", "s2"}
FactoryIds == {"f1", "f2"}
ActionIds == {"a1"}
Methods == {"getHello", "encodeBase64"}

NoAction ==
  [created |-> FALSE, via |-> "none", dfltAtCreation |-> "null", method |-> "none",
   third |-> Undefined,
   fourth |-> Undefined, transformData |-> Undefined, payload |-> Undefined]

NoSyncThrow == [threw |-> FALSE, val |-> Undefined]
SyncThrow(e) == [threw |-> TRUE, val |-> e]

NoLast ==
  [kind |-> "none", a |-> "none", via |-> "none", dflt |-> "null", svc |-> "null",
   method |-> "none", transformData |-> Undefined, payload |-> Undefined, args |-> <<>>,
   calls |-> <<>>, dataBefore |-> Null, atCall |-> NewBaseApiState(Null), slot |-> 0,
   overlapped |-> FALSE, youngerDone |-> FALSE, youngerResult |-> NoResult,
   settled |-> ResolvedUndefined, path |-> "none", result |-> NoResult, ops |-> <<>>]

NoRecOp ==
  [op |-> "none", arg |-> Undefined, before |-> NewBaseApiState(Null), status |-> "idle",
   prev |-> "none", prevStatus |-> "idle"]

NoNet ==
  [kind |-> "none", request |-> Request("", "", Undefined), served |-> FALSE,
   fetched |-> FetchRejected(Undefined), response |-> ResolvedUndefined]

Init ==
  /\ defaultAsyncManager = "null"
  /\ factories = [f \in FactoryIds |-> "null"]
  /\ actions = [a \in ActionIds |-> NoAction]
  /\ rec = NewBaseApiState(Null)
  /\ inflight = <<>>
  /\ last = NoLast
  /\ recOp = NoRecOp
  /\ net = NoNet

\* setDefaultApiService(apiService)
SetDefaultApiService(apiService) ==
  /\ defaultAsyncManager' = apiService
  /\ UNCHANGED <<factories, actions, rec, inflight, last, recOp, net>>

\* const f = createApiActionFactory(apiService)
CreateApiActionFactory(f, apiService) ==
  /\ factories[f] = "null"
  /\ factories' = [factories EXCEPT ![f] = apiService]
  /\ UNCHANGED <<defaultAsyncManager, actions, rec, inflight, last, recOp, net>>

\* const a = createApiAction(apiMethod, rec, third, fourth)
CreateApiAction(a, apiMethod, third, fourth) ==
  /\ ~actions[a].created
  /\ LET args == createApiAction(third, fourth)
     IN actions' = [actions EXCEPT ![a] =
          [created |-> TRUE, via |-> "default", dfltAtCreation |-> defaultAsyncManager,
           method |-> apiMethod, third |-> third,
           fourth |-> fourth, transformData |-> args.transformData, payload |-> args.payload]]
  /\ UNCHANGED <<defaultAsyncManager, factories, rec, inflight, last, recOp, net>>

\* const a = f(apiMethod, rec, third, fourth) for a factory f created earlier
FactoryCreateAction(a, f, apiMethod, third, fourth) ==
  /\ ~actions[a].created
  /\ factories[f] # "null"
  /\ LET args == createApiActionFactory(third, fourth)
     IN actions' = [actions EXCEPT ![a] =
          [created |-> TRUE, via |-> f, dfltAtCreation |-> "null",
           method |-> apiMethod, third |-> third,
           fourth |-> fourth, transformData |-> args.transformData, payload |-> args.payload]]
  /\ UNCHANGED <<defaultAsyncManager, factories, rec, inflight, last, recOp, net>>

\* the manager a callable executes on: createApiAction's callable asks
\* getDefaultAsyncManager() at each invocation, a factory callable uses the
\* manager its factory constructed
ManagerOfDefaultOnly(c) == getDefaultAsyncManager(defaultAsyncManager)

ManagerOfAtCreation(c) ==
  IF c.via = "default"
    THEN getDefaultAsyncManager(c.dfltAtCreation)
    ELSE [threw |-> FALSE, manager |-> factories[c.via], error |-> Undefined]

ManagerOf(c) ==
  IF c.via = "default"
    THEN getDefaultAsyncManager(defaultAsyncManager)
    ELSE [threw |-> FALSE, manager |-> factories[c.via], error |-> Undefined]

\* an execution that completes while older executions are still in flight
\* leaves its mark on them
Overtake(calls, result) ==
  [i \in DOMAIN calls |->
     [calls[i] EXCEPT !.overlapped = TRUE, !.youngerDone = TRUE, !.youngerResult = result]]

\* the pending promise of an execution in flight is told from the others by
\* its slot, the least number no execution in flight holds
FreeSlot(calls) ==
  CHOOSE n \in 1..(Len(calls) + 1) :
    /\ \A i \in DOMAIN calls : calls[i].slot # n
    /\ \A m \in 1..(n - 1) : \E i \in DOMAIN calls : calls[i].slot = m

\* the State Record operations a callable has called when it reaches the
\* facade call: getDefaultAsyncManager() is evaluated first, and when it
\* throws executeAsyncAction is never entered
BeginOpsEager(got) == ExecuteBegin

BeginOps(got) == IF got.threw THEN <<>> ELSE ExecuteBegin

\* the callable c, known as a, runs up to its first await.  sync is what the
\* facade method does when called: return a promise, or throw before
\* returning; limit bounds the executions in flight; slot names the pending
\* promise
Run(c, a, sync, limit, slot) ==
  /\ LET got == ManagerOf(c)
         begun == ApplyOps(rec, BeginOps(got))
         call == [a |-> a, via |-> c.via, dflt |-> defaultAsyncManager, svc |-> got.manager,
                  method |-> c.method, transformData |-> c.transformData,
                  payload |-> c.payload, args |-> FacadeArgs(c.payload),
                  calls |-> InvokeFacade(c.payload), dataBefore |-> rec.data,
                  atCall |-> begun, slot |-> slot,
                  overlapped |-> inflight # <<>>, youngerDone |-> FALSE,
                  youngerResult |-> NoResult]
     IN IF got.threw
          THEN /\ last' = [NoLast EXCEPT !.kind = "misuse", !.a = a, !.via = c.via,
                             !.dflt = defaultAsyncManager, !.method = c.method,
                             !.transformData = c.transformData, !.payload = c.payload,
                             !.path = "misuse", !.result = Throws(got.error),
                             !.ops = BeginOps(got)]
               /\ rec' = begun
               /\ UNCHANGED inflight
        ELSE IF sync.threw
          THEN LET end == Catch(sync.val)
               IN /\ rec' = ApplyOps(begun, end.ops)
                  /\ inflight' = Overtake(inflight, end.result)
                  /\ last' = [kind |-> "done", a |-> a, via |-> call.via, dflt |-> call.dflt,
                              svc |-> call.svc, method |-> call.method,
                              transformData |-> call.transformData, payload |-> call.payload,
                              args |-> call.args, calls |-> call.calls,
                              dataBefore |-> call.dataBefore, atCall |-> begun,
                              slot |-> 0, overlapped |-> call.overlapped,
                              youngerDone |-> FALSE, youngerResult |-> NoResult,
                              settled |-> Rejected(sync.val), path |-> end.path,
                              result |-> end.result, ops |-> ExecuteBegin \o end.ops]
        ELSE /\ Len(inflight) < limit
             /\ rec' = begun
             /\ inflight' = Append([i \in DOMAIN inflight |->
                                      [inflight[i] EXCEPT !.overlapped = TRUE]], call)
             /\ UNCHANGED last
  /\ UNCHANGED <<defaultAsyncManager, factories, actions, recOp, net>>

\* a() for a callable created earlier
Dispatch(a, sync, limit, slot) ==
  /\ actions[a].created
  /\ Run(actions[a], a, sync, limit, slot)

\* a() where the pending promises need not be told apart
Invoke(a, sync, limit) == Dispatch(a, sync, limit, 0)

\* encodeBase64ToText({text}): a callable is created for this request, with
\* the request as payload and a transform that adds the request's text as
\* originalText, and is invoked at once
EncodeBase64ToText(text, limit) ==
  LET request == TextRequest(text)
      transform == Attach(text.v)
      args == createApiAction(request, transform)
  IN Run([created |-> TRUE, via |-> "default", dfltAtCreation |-> defaultAsyncManager,
          method |-> "encodeBase64",
          third |-> request, fourth |-> transform,
          transformData |-> args.transformData, payload |-> args.payload],
         "encodeBase64ToText", NoSyncThrow, limit, 0)

\* a click on a page's button, which is disabled while the record is loading
InvokeUnguarded(a, sync, limit) == Invoke(a, sync, limit)

GuardedInvoke(a, sync, limit) ==
  /\ ~rec.loading
  /\ Invoke(a, sync, limit)

\* a() where each pending promise is told from the others
InvokePending(a, sync, limit) == Dispatch(a, sync, limit, FreeSlot(inflight))

\* the i-th execution in flight resumes with its settled facade call and
\* runs to its end
SettleReturnsRecordData(i, settled) ==
  /\ i \in DOMAIN inflight
  /\ LET call == inflight[i]
         ran == ExecuteEnd(call.transformData, settled)
         end == [ran EXCEPT !.result.data = IF ran.result.success THEN @ ELSE rec.data]
         rest == [j \in 1..(Len(inflight) - 1) |->
                    IF j < i
                      THEN [inflight[j] EXCEPT !.youngerDone = TRUE,
                                               !.youngerResult = end.result]
                      ELSE inflight[j + 1]]
     IN /\ rec' = ApplyOps(rec, end.ops)
        /\ inflight' = rest
        /\ last' = [kind |-> "done", a |-> call.a, via |-> call.via, dflt |-> call.dflt,
                    svc |-> call.svc, method |-> call.method,
                    transformData |-> call.transformData, payload |-> call.payload,
                    args |-> call.args, calls |-> call.calls,
                    dataBefore |-> call.dataBefore, atCall |-> call.atCall,
                    slot |-> call.slot, overlapped |-> call.overlapped,
                    youngerDone |-> call.youngerDone, youngerResult |-> call.youngerResult,
                    settled |-> settled, path |-> end.path,
                    result |-> end.result, ops |-> ExecuteBegin \o end.ops]
  /\ UNCHANGED <<defaultAsyncManager, factories, actions, recOp>>

Settle(i, settled) ==
  /\ i \in DOMAIN inflight
  /\ LET call == inflight[i]
         end == ExecuteEnd(call.transformData, settled)
         rest == [j \in 1..(Len(inflight) - 1) |->
                    IF j < i
                      THEN [inflight[j] EXCEPT !.youngerDone = TRUE,
                                               !.youngerResult = end.result]
                      ELSE inflight[j + 1]]
     IN /\ rec' = ApplyOps(rec, end.ops)
        /\ inflight' = rest
        /\ last' = [kind |-> "done", a |-> call.a, via |-> call.via, dflt |-> call.dflt,
                    svc |-> call.svc, method |-> call.method,
                    transformData |-> call.transformData, payload |-> call.payload,
                    args |-> call.args, calls |-> call.calls,
                    dataBefore |-> call.dataBefore, atCall |-> call.atCall,
                    slot |-> call.slot, overlapped |-> call.overlapped,
                    youngerDone |-> call.youngerDone, youngerResult |-> call.youngerResult,
                    settled |-> settled, path |-> end.path,
                    result |-> end.result, ops |-> ExecuteBegin \o end.ops]
  /\ UNCHANGED <<defaultAsyncManager, factories, actions, recOp>>

\* the facade call of the i-th execution in flight settles (a facade given
\* by its settlements, as the mocked facades of the tests)
Complete(i, settled) ==
  /\ Settle(i, settled)
  /\ UNCHANGED net

\* the facade call of the i-th execution in flight settles, the facade being
\* the ApiService of client.ts: its fetch settles and ApiClient.request
\* resolves
CompleteFetchLatestRequest(i, network) ==
  /\ i \in DOMAIN inflight
  /\ LET latest == inflight[Len(inflight)]
         request == FacadeRequest(latest.method, latest.args)
         fetched == Fetch(request, network)
     IN /\ Settle(i, ClientRequest(fetched))
        /\ net' = [kind |-> "fetch", request |-> request, served |-> network.delivers,
                   fetched |-> fetched, response |-> ClientRequest(fetched)]

CompleteFetch(i, network) ==
  /\ i \in DOMAIN inflight
  /\ LET request == FacadeRequest(inflight[i].method, inflight[i].args)
         fetched == Fetch(request, network)
     IN /\ Settle(i, ClientRequest(fetched))
        /\ net' = [kind |-> "fetch", request |-> request, served |-> network.delivers,
                   fetched |-> fetched, response |-> ClientRequest(fetched)]

\* any HTTP client posts a body to /api/base64/encode and reads the reply
PostEncode(body) ==
  /\ net' = [kind |-> "post", request |-> Request("POST", "/base64/encode", body),
             served |-> TRUE, fetched |-> Responded(EncodeHandler(body), TRUE),
             response |-> ResolvedUndefined]
  /\ UNCHANGED <<defaultAsyncManager, factories, actions, rec, inflight, last, recOp>>

\* a caller other than the Executor calls one State Record operation and
\* reads the derived status (state-manager tests)
RecordOp(name, arg) ==
  /\ rec' = ApplyOp(rec, Op(name, arg))
  /\ recOp' = [op |-> name, arg |-> arg, before |-> rec, status |-> status(rec'),
                prev |-> recOp.op, prevStatus |-> recOp.status]
  /\ UNCHANGED <<defaultAsyncManager, factories, actions, inflight, last, net>>

\* ------------------------------------------------------------- inputs
D1 == Obj("D1")
D2 == Obj("D2")

\* values a facade call can throw or reject with
Thrown == {Err("Network failure"), Err(""), Str("boom")}

\* ways a facade call can settle
Settlements ==
  {Resolved(D1, Undefined), Resolved(D2, Undefined), Resolved(Str(""), Undefined),
   Resolved(Undefined, Str("E1")), Resolved(Undefined, Str("")),
   Resolved(Undefined, Undefined), ResolvedUndefined}
  \cup {Rejected(e) : e \in Thrown}

SyncOutcomes == {NoSyncThrow} \cup {SyncThrow(e) : e \in Thrown}

TransformFns ==
  {Fn("identity"), Fn("wrap"), Fn("toNull"), Fn("throwError"), Fn("throwEmptyError"),
   Fn("throwString")}

\* ------------------------------------------------------- specifications
\* Spec: the default Executor driving one State Record, any transform,
\* overlapping dispatches
Next ==
  \/ SetDefaultApiService("s1")
  \/ \E a \in ActionIds, t \in TransformFns \cup {Undefined} :
       CreateApiAction(a, "getHello", t, Undefined)
  \/ \E a \in ActionIds, sync \in SyncOutcomes : Invoke(a, sync, MaxInFlight)
  \/ \E i \in 1..MaxInFlight, settled \in Settlements : Complete(i, settled)

Spec == Init /\ [][Next]_vars

\* SpecRecord: the State Record on its own, its four operations called in
\* any order with any argument
DataValues == {Null, Undefined, Str(""), D1, D2}
ErrorValues == {Str(""), Str("E1"), Str("E2")}

NextRecord ==
  \/ RecordOp("clear", Undefined)
  \/ \E b \in BOOLEAN : RecordOp("setLoading", Bool(b))
  \/ \E d \in DataValues : RecordOp("setData", d)
  \/ \E e \in ErrorValues : RecordOp("setError", e)

SpecRecord == Init /\ [][NextRecord]_vars

\* SpecHelpers: both construction paths, two facades, payload and transform
\* arguments in every position
Thirds == {Undefined, Fn("wrap"), Obj("P1"), Str("")}
Fourths == {Undefined, Attach("P1")}
HelperSettlements ==
  {Resolved(D1, Undefined), Resolved(Undefined, Str("E1")), Rejected(Err("Network failure"))}
HelperSyncOutcomes == {NoSyncThrow, SyncThrow(Err("Network failure"))}

NextHelpers ==
  \/ \E s \in Services : SetDefaultApiService(s)
  \/ \E f \in FactoryIds, s \in Services : CreateApiActionFactory(f, s)
  \/ \E a \in ActionIds, m \in Methods, t \in Thirds, u \in Fourths :
       CreateApiAction(a, m, t, u)
  \/ \E a \in ActionIds, f \in FactoryIds, m \in Methods, t \in Thirds, u \in Fourths :
       FactoryCreateAction(a, f, m, t, u)
  \/ \E a \in ActionIds, sync \in HelperSyncOutcomes : Invoke(a, sync, MaxHelperInFlight)
  \/ \E i \in 1..MaxHelperInFlight, settled \in HelperSettlements : Complete(i, settled)

SpecHelpers == Init /\ [][NextHelpers]_vars

\* SpecNet: the facade is the ApiService of client.ts talking to the backend
\* of api/index.js; the Hello action and the Base64 action of the stores
Texts == {Str("Hi"), Str("Man"), Str(""), Num("123"), Undefined}
Bodies == {TextRequest(text) : text \in Texts} \cup {Undefined}

Delivers == [delivers |-> TRUE, outcome |-> FetchRejected(Undefined)]
Instead(outcome) == [delivers |-> FALSE, outcome |-> outcome]

\* a network that works, a gateway answering 502 with an HTML page, a
\* server answering 200 with an HTML page, a transport that fails
Networks ==
  {Delivers,
   Instead(Responded(Reply(502, Undefined, Undefined, Undefined), FALSE)),
   Instead(Responded(Reply(200, Undefined, Undefined, Undefined), FALSE)),
   Instead(FetchRejected(Err("Failed to fetch"))),
   Instead(FetchRejected(Err(""))),
   Instead(FetchRejected(Str("offline")))}

NextNet ==
  \/ SetDefaultApiService("s1")
  \/ \E a \in ActionIds : CreateApiAction(a, "getHello", Fn("identity"), Undefined)
  \/ \E a \in ActionIds, text \in Texts :
       CreateApiAction(a, "encodeBase64", TextRequest(text), Attach(text.v))
  \/ \E a \in ActionIds : Invoke(a, NoSyncThrow, MaxInFlight)
  \/ \E i \in 1..MaxInFlight, network \in Networks : CompleteFetch(i, network)
  \/ \E body \in Bodies : PostEncode(body)

SpecNet == Init /\ [][NextNet]_vars

\* SpecBase64: the base64 record of the store, written only through
\* encodeBase64ToText, over the ApiService and the backend
Base64Texts == {Str("Hi"), Str("Man"), Str("")}
Base64Networks == {Delivers, Instead(FetchRejected(Err("Failed to fetch")))}

NextBase64 ==
  \/ SetDefaultApiService("s1")
  \/ \E text \in Base64Texts : EncodeBase64ToText(text, MaxInFlight)
  \/ \E i \in 1..MaxInFlight, network \in Base64Networks : CompleteFetch(i, network)

SpecBase64 == Init /\ [][NextBase64]_vars

\* SpecGuarded: the callable is invoked only through a button that is
\* disabled while the record is loading
NextGuarded ==
  \/ SetDefaultApiService("s1")
  \/ \E a \in ActionIds, t \in TransformFns \cup {Undefined} :
       CreateApiAction(a, "getHello", t, Undefined)
  \/ \E a \in ActionIds, sync \in SyncOutcomes : GuardedInvoke(a, sync, MaxInFlight)
  \/ \E i \in 1..MaxInFlight, settled \in Settlements : Complete(i, settled)

SpecGuarded == Init /\ [][NextGuarded]_vars

\* SpecLive: overlapping dispatches whose pending promises are told apart,
\* every facade call settling sooner or later
LiveTransforms == {Undefined, Fn("throwError")}
LiveSettlements ==
  {Resolved(D1, Undefined), Resolved(Undefined, Str("E1")), Rejected(Err("Network failure"))}
LiveSyncOutcomes == {NoSyncThrow, SyncThrow(Err("Network failure"))}

NextLive ==
  \/ SetDefaultApiService("s1")
  \/ \E a \in ActionIds, t \in LiveTransforms : CreateApiAction(a, "getHello", t, Undefined)
  \/ \E a \in ActionIds, sync \in LiveSyncOutcomes : InvokePending(a, sync, MaxInFlight)
  \/ \E i \in 1..MaxInFlight, settled \in LiveSettlements : Complete(i, settled)

\* the promise of the i-th execution in flight settles
FacadeSettles(i) == \E settled \in LiveSettlements : Complete(i, settled)

SpecLive ==
  /\ Init
  /\ [][NextLive]_vars
  /\ \A i \in 1..MaxInFlight : WF_vars(FacadeSettles(i))

\* ================================================================ claims
\* the record is as the latest completion left it
Completed == last.kind = "done" /\ inflight = <<>>

\* the facade response of the latest completion carries a data field
CarriesData(c) == c.settled.kind = "resolve" /\ c.settled.isObj /\ c.settled.data # Undefined

\* a transform was given and throws on the response's data
TransformThrows(c) ==
  c.transformData # Undefined /\ CallTransform(c.transformData, c.settled.data).threw

\* the response payload, transformed when a transform was given
Payload(c) ==
  IF c.transformData # Undefined
    THEN CallTransform(c.transformData, c.settled.data).val
    ELSE c.settled.data

\* C1: after an execution that shared the record with no other call, whose
\* facade response carries data and whose transform (if any) does not throw,
\* the record has loading = false, error = "", data = the (transformed)
\* payload and status 'success'.
C1_SuccessPostcondition ==
  (Completed /\ ~last.overlapped /\ CarriesData(last) /\ ~TransformThrows(last))
    => /\ rec.loading = FALSE
       /\ rec.error = ""
       /\ rec.data = Payload(last)
       /\ status(rec) = "success"

\* the execution failed: no response data, the facade call threw or
\* rejected, or the transform threw
Failed(c) ==
  \/ c.settled.kind = "reject"
  \/ c.settled.kind = "resolve" /\ ~CarriesData(c)
  \/ CarriesData(c) /\ Truthy(c.settled.data) /\ TransformThrows(c)

\* C2: after a failed execution that shared the record with no other call,
\* the record has loading = false, a non-empty error and status 'error'.
C2_FailurePostcondition ==
  (Completed /\ ~last.overlapped /\ Failed(last))
    => /\ rec.loading = FALSE
       /\ rec.error # ""
       /\ status(rec) = "error"

\* C3 (as stated): loading is true exactly when some execution on the record
\* has been dispatched and has not completed, overlapping dispatches included.
C3_LoadingIffInFlight == rec.loading <=> (inflight # <<>>)

NoOverlap == \A i \in DOMAIN inflight : ~inflight[i].overlapped

\* C3 (amended): loading = true implies that some execution is in flight, and
\* as long as no execution in flight has shared the record with another one,
\* loading is true exactly when an execution is in flight.
C3_LoadingWhileAlone ==
  /\ rec.loading => inflight # <<>>
  /\ NoOverlap => (rec.loading <=> (inflight # <<>>))

C3_Witness ==
  /\ Len(inflight) = 1
  /\ ~inflight[1].overlapped
  /\ rec.loading
  /\ last.kind = "done"

\* C4: once every overlapping execution has completed, loading is false and
\* the record's error (empty on success) and, on success, its data are the
\* ones written by the execution that completed last, whatever the order of
\* dispatch.
C4_LastWriteWins ==
  Completed
    => /\ rec.loading = FALSE
       /\ rec.error = (IF last.result.success THEN "" ELSE last.result.error.v)
       /\ last.result.success => rec.data = last.result.data

\* the older of two overlapping executions completed after the younger one,
\* both succeeded with different data, and the record holds the older one's
C4_Witness ==
  /\ Completed
  /\ last.youngerDone
  /\ last.result.success
  /\ last.youngerResult.success
  /\ last.youngerResult.data # last.result.data
  /\ rec.data = last.result.data

\* C5: the status read from the record is 'loading' if loading is true,
\* whatever error and data hold; else 'error' if error is non-empty; else
\* 'success' if data is neither null nor undefined; else 'idle'.
C5_StatusPriority ==
  recOp.op # "none"
    => /\ rec.loading => recOp.status = "loading"
       /\ (~rec.loading /\ rec.error # "") => recOp.status = "error"
       /\ (~rec.loading /\ rec.error = "" /\ rec.data \notin {Null, Undefined})
            => recOp.status = "success"
       /\ (~rec.loading /\ rec.error = "" /\ rec.data \in {Null, Undefined})
            => recOp.status = "idle"

\* loading dominates a non-empty error and present data
C5_Witness ==
  /\ recOp.op = "setLoading"
  /\ rec.loading
  /\ rec.error # ""
  /\ rec.data = D1
  /\ recOp.status = "loading"

\* C6: with the default Executor installed, whatever the facade call or the
\* transform does, the callable's promise resolves to an Async Action Result
\* and never rejects; a failure is reported in the result and in the record.
C6_NeverRejects ==
  (last.kind # "none" /\ last.via = "default" /\ last.dflt # "null")
    => /\ last.kind = "done"
       /\ ~last.result.rejected
       /\ last.result.success => last.result.error = Undefined
       /\ ~last.result.success
            => /\ last.result.error.t = "string"
               /\ last.result.data = Undefined
               /\ inflight = <<>> => rec.error = last.result.error.v

\* the transform threw and the callable still resolved with a failure
C6_Witness ==
  /\ Completed
  /\ last.via = "default"
  /\ CarriesData(last)
  /\ TransformThrows(last)
  /\ last.path = "catch"
  /\ last.result = Failure("Transform error")
  /\ rec.error = "Transform error"

\* C7: a createApiAction callable invoked while no default Executor is
\* installed rejects with the 'not initialized' error and starts no execution.
C7_MisuseError ==
  /\ (last.kind # "none" /\ last.via = "default" /\ last.dflt = "null")
       => /\ last.kind = "misuse"
          /\ last.result = Throws(Err(NotInitialized))
  /\ \A i \in DOMAIN inflight : inflight[i].via = "default" => inflight[i].dflt # "null"

C7_Witness ==
  /\ last.kind = "misuse"
  /\ defaultAsyncManager = "null"
  /\ last.result.rejected

\* C8: createApiAction(method, record, third, fourth): when third is a
\* function the callable executes with transform = third and no payload,
\* fourth ignored; otherwise (undefined included) with payload = third and
\* transform = fourth.
C8_ThirdArgument ==
  /\ \A a \in ActionIds :
       (actions[a].created /\ actions[a].via = "default")
         => IF IsFunction(actions[a].third)
              THEN actions[a].transformData = actions[a].third
                   /\ actions[a].payload = Undefined
              ELSE actions[a].payload = actions[a].third
                   /\ actions[a].transformData = actions[a].fourth
  /\ (last.kind = "done" /\ last.via = "default")
       => IF IsFunction(actions[last.a].third)
            THEN last.transformData = actions[last.a].third /\ last.payload = Undefined
            ELSE last.payload = actions[last.a].third
                 /\ last.transformData = actions[last.a].fourth

\* a payload as third argument and a transform as fourth: the facade received
\* the payload and the transform was applied to the response
C8_Witness ==
  /\ last.kind = "done"
  /\ last.via = "default"
  /\ actions[last.a].third = Obj("P1")
  /\ actions[last.a].fourth = Attach("P1")
  /\ last.args = <<Obj("P1")>>
  /\ last.result = Success([t |-> "object", v |-> "D1", x |-> "P1"])

\* C9: for the same method, payload and transform arguments and the same
\* facade behaviour, a callable built by a factory invokes the facade with
\* the same arguments, makes the same record mutations and returns the same
\* result as one built by createApiAction.
C9_PathsEquivalent ==
  (last.kind = "done" /\ last.via \in FactoryIds)
    => LET c == actions[last.a]
           d == createApiAction(c.third, c.fourth)
           end == ExecuteEnd(d.transformData, last.settled)
       IN /\ last.args = FacadeArgs(d.payload)
          /\ last.ops = ExecuteBegin \o end.ops
          /\ last.result = end.result

\* the default changes only in steps that touch nothing else
DefaultWrittenOnlyBySetDefault ==
  [][defaultAsyncManager' # defaultAsyncManager
       => UNCHANGED <<factories, actions, rec, inflight, last>>]_vars

\* every execution of a factory callable runs on the facade its factory was
\* created with, whatever the default is, and is never a misuse
FactoryUsesOwnFacade ==
  /\ \A i \in DOMAIN inflight :
       inflight[i].via \in FactoryIds => inflight[i].svc = factories[inflight[i].via]
  /\ (last.kind # "none" /\ last.via \in FactoryIds)
       => last.kind = "done" /\ last.svc = factories[last.via]

\* C10: factory callables neither read nor write the default Executor: they
\* work without a default, keep calling their own facade after
\* setDefaultApiService, leave the default unchanged, and never call the
\* facade of another factory.
C10_FactoryIsolation == []FactoryUsesOwnFacade /\ DefaultWrittenOnlyBySetDefault

\* a callable of factory f1 ran on f1's facade while the default and the
\* other factory were bound to the other facade
C10_Witness ==
  /\ last.kind = "done"
  /\ last.via = "f1"
  /\ last.svc = "s1"
  /\ last.dflt = "s2"
  /\ factories["f2"] = "s2"

C18_SetDataGivesSuccess ==
  (recOp.op = "setData" /\ recOp.arg \notin {Null, Undefined} /\ ~recOp.before.loading)
    => recOp.status = "success" /\ rec.error = ""

\* C20: clear() called twice in a row leaves the same data, loading, error
\* and status as calling it once.
C20_ClearIdempotent ==
  (recOp.op = "clear" /\ recOp.prev = "clear")
    => rec = recOp.before /\ recOp.status = recOp.prevStatus

C20_Witness ==
  /\ recOp.op = "clear"
  /\ recOp.prev = "clear"
  /\ rec.data = D1
  /\ recOp.status = "success"

\* C13: presence of data signals success: an execution whose facade response
\* carries a data field (whatever its value) takes the success path with
\* result.success = true, and the API-error path is taken only when the
\* response carries no data.
C13_DataPresenceDecides ==
  last.kind = "done"
    => /\ (CarriesData(last) /\ ~TransformThrows(last))
            => last.path = "success" /\ last.result.success
       /\ last.path = "apiError" => ~CarriesData(last)

\* the latest execution ended on the API-error branch or in the catch block
EndedInFailure == last.kind = "done" /\ last.path \in {"apiError", "catch"}

\* C16: after every failed execution the record's data equals its data
\* before the call was dispatched.
C16_DataAsBeforeDispatch == EndedInFailure => rec.data = last.dataBefore

\* C16 (amended): a failed execution calls no setData, and when it shared the
\* record with no other call the data equals the data before its dispatch.
C16_FailureWritesNoData ==
  EndedInFailure
    => /\ \A k \in DOMAIN last.ops : last.ops[k].op # "setData"
       /\ ~last.overlapped => rec.data = last.dataBefore

\* stale data kept through an API-reported error
C16_Witness ==
  /\ EndedInFailure
  /\ last.path = "apiError"
  /\ ~last.overlapped
  /\ last.dataBefore = D1
  /\ rec.data = D1
  /\ rec.error = "E1"

\* C19: every invocation that reaches the Executor calls the facade method
\* exactly once, whether it succeeds, returns an error or throws.
C19_FacadeCalledOnce ==
  /\ last.kind = "done" => Len(last.calls) = 1
  /\ \A i \in DOMAIN inflight : Len(inflight[i].calls) = 1

\* a second invocation after a success calls the facade again and fails
C19_Witness ==
  /\ last.kind = "done"
  /\ last.path = "catch"
  /\ last.settled.kind = "reject"
  /\ last.dataBefore = D1
  /\ Len(last.calls) = 1
\* the latest exchange went through the client and the backend answered it
\* with status 400 and a JSON body {error: m}
Answered400 ==
  /\ net.kind = "fetch"
  /\ net.served
  /\ net.fetched.reply.status = 400
  /\ net.fetched.reply.error # Undefined
  /\ last.kind = "done"

\* the latest execution wrote msg to the record's error and returned it
Reported(msg) ==
  /\ last.result = Failure(msg)
  /\ \E k \in DOMAIN last.ops : last.ops[k] = Op("setError", Str(msg))
  /\ Completed => rec.error = msg

\* C11: when the backend answers 400 with a JSON body {error: m}, the facade
\* response carries error = m and the record's error and the result's error
\* equal m.
C11_BackendMessageSurfaced ==
  Answered400
    => /\ net.response = Resolved(Undefined, net.fetched.reply.error)
       /\ Reported(net.fetched.reply.error.v)

\* C11 (amended): when the backend answers 400 with a JSON body {error: m},
\* the facade response carries error = 'HTTP error! status: 400' and the
\* record's error and the result's error equal that string.
C11_StatusMessageSurfaced ==
  Answered400
    => /\ net.response = Resolved(Undefined, Str("HTTP error! status: 400"))
       /\ last.settled = net.response
       /\ last.path = "apiError"
       /\ Reported("HTTP error! status: 400")

\* the Base64 action sent {text: 123}, the backend refused it
C11_Witness ==
  /\ Answered400
  /\ Completed
  /\ net.request.body = TextRequest(Num("123"))
  /\ net.fetched.reply.error = Str(InvalidInput)
  /\ rec.error = "HTTP error! status: 400"

\* the thrown value carries no message
NoMessage(e) == ~InstanceOfError(e) \/ e.v = ""

\* C12: when fetch rejects with a value that carries no message, the
\* record's error and the result's error equal 'Network error'.
C12_NetworkErrorDefault ==
  (net.kind = "fetch" /\ net.fetched.kind = "reject" /\ NoMessage(net.fetched.thrown)
     /\ last.kind = "done")
    => Reported("Network error")

\* the text field of a posted body is a string
TextIsString(body) == body # Undefined /\ TextOf(body).t = "string"

\* C14: POST /api/base64/encode answers 200 with a base64 field for every
\* body whose text is a string, and answers 400 with an error field and no
\* base64 field exactly when text is missing or not a string.
C14_EncodeStatus ==
  (net.served /\ net.request.endpoint = "/base64/encode")
    => LET reply == net.fetched.reply
           body == net.request.body
       IN /\ TextIsString(body) => reply.status = 200 /\ reply.base64 # Undefined
          /\ (reply.status = 400 /\ reply.error # Undefined /\ reply.base64 = Undefined)
               <=> ~TextIsString(body)

\* exactly one of the two fields of a facade response is present
OneField(response) ==
  /\ response.kind = "resolve"
  /\ response.isObj
  /\ (response.data = Undefined) # (response.error = Undefined)

\* C17: for every outcome of fetch the facade method resolves with exactly
\* one field: {data: body} when the HTTP response is ok, {error: 'HTTP error!
\* status: N'} when it has non-ok status N, {error: message} when fetch
\* rejects with an Error.
C17_FacadeResponse ==
  net.kind = "fetch"
    => LET f == net.fetched
       IN /\ OneField(net.response)
          /\ (f.kind = "response" /\ Ok(f.reply))
               => net.response.data # Undefined /\ net.response.error = Undefined
          /\ (f.kind = "response" /\ Ok(f.reply) /\ f.parses)
               => net.response = Resolved(BodyOf(f.reply), Undefined)
          /\ (f.kind = "response" /\ ~Ok(f.reply))
               => net.response =
                    Resolved(Undefined, Str("HTTP error! status: " \o ToString(f.reply.status)))
          /\ (f.kind = "reject" /\ InstanceOfError(f.thrown))
               => net.response = Resolved(Undefined, Str(f.thrown.v))

\* C17 (amended): the facade method resolves with exactly one field present:
\* {data: body} when the response is ok and its body parses as JSON, {error:
\* the parse error's message} when it is ok and the body does not parse,
\* {error: 'HTTP error! status: N'} for non-ok status N, {error: message}
\* when fetch rejects with an Error, {error: 'Unknown error'} when it rejects
\* with anything else.
C17_FacadeResponseParsed ==
  net.kind = "fetch"
    => LET f == net.fetched
       IN /\ OneField(net.response)
          /\ (f.kind = "response" /\ Ok(f.reply) /\ f.parses)
               => net.response = Resolved(BodyOf(f.reply), Undefined)
          /\ (f.kind = "response" /\ Ok(f.reply) /\ ~f.parses)
               => net.response = Resolved(Undefined, Str(JsonSyntaxError.v))
          /\ (f.kind = "response" /\ ~Ok(f.reply))
               => net.response =
                    Resolved(Undefined, Str("HTTP error! status: " \o ToString(f.reply.status)))
          /\ (f.kind = "reject" /\ InstanceOfError(f.thrown))
               => net.response = Resolved(Undefined, Str(f.thrown.v))
          /\ (f.kind = "reject" /\ ~InstanceOfError(f.thrown))
               => net.response = Resolved(Undefined, Str("Unknown error"))

\* fetch rejected with an Error and the facade resolved with its message
C17_Witness ==
  /\ net.kind = "fetch"
  /\ net.fetched = FetchRejected(Err("Failed to fetch"))
  /\ net.response = Resolved(Undefined, Str("Failed to fetch"))
  /\ last.result = Failure("Failed to fetch")

\* C21: in every execution, on every path, setLoading(false) is called
\* exactly once and is the last operation the execution calls on the record,
\* after its setData / setError writes and after its own setLoading(true).
C21_LoadingResetLast ==
  last.kind = "done"
    => LET n == Len(last.ops)
           off == Op("setLoading", Bool(FALSE))
       IN /\ n >= 4
          /\ last.ops[n] = off
          /\ \A k \in 1..(n - 1) : last.ops[k] # off
          /\ \E k \in 1..(n - 1) : last.ops[k] = Op("setLoading", Bool(TRUE))
          /\ \E k \in 1..(n - 1) : last.ops[k].op \in {"setData", "setError"}

\* an execution whose transform threw ended with setLoading(false)
C21_Witness ==
  /\ last.kind = "done"
  /\ last.path = "catch"
  /\ last.settled = Resolved(D1, Undefined)
  /\ last.ops[Len(last.ops)] = Op("setLoading", Bool(FALSE))
  /\ ~rec.loading

\* the facade call of the execution threw or rejected, or its transform threw
Threw(c) ==
  \/ c.settled.kind = "reject"
  \/ CarriesData(c) /\ Truthy(c.settled.data) /\ TransformThrows(c)

\* the value that was thrown
ThrownBy(c) ==
  IF c.settled.kind = "reject"
    THEN c.settled.thrown
    ELSE CallTransform(c.transformData, c.settled.data).val

\* C22: if the facade method throws or rejects, or the transform throws, the
\* execution writes msg to the record's error and returns {success: false,
\* error: msg}; msg is the thrown value's message if it is an Error and
\* 'Network error' otherwise.
C22_CatchMessage ==
  (last.kind = "done" /\ Threw(last))
    => /\ last.path = "catch"
       /\ Reported(IF ThrownBy(last).t = "error" THEN ThrownBy(last).v ELSE "Network error")

\* a facade that rejected with a string
C22_Witness ==
  /\ Completed
  /\ last.settled = Rejected(Str("boom"))
  /\ rec.error = "Network error"
  /\ last.result = Failure("Network error")

\* the facade resolved with a response object without a data field
NoData(c) == c.settled.kind = "resolve" /\ c.settled.isObj /\ c.settled.data = Undefined

\* C23: if the facade response carries no data, the execution writes e to
\* the record's error and returns {success: false, error: e}; e is
\* response.error if present and 'Unknown error' otherwise.
C23_ErrorIfPresent ==
  (last.kind = "done" /\ NoData(last))
    => /\ last.path = "apiError"
       /\ Reported(IF last.settled.error # Undefined
                     THEN last.settled.error.v ELSE "Unknown error")

\* C23 (amended): e is response.error if it is a non-empty string and
\* 'Unknown error' if the error field is absent or empty.
C23_ErrorIfNonEmpty ==
  (last.kind = "done" /\ NoData(last))
    => /\ last.path = "apiError"
       /\ Reported(IF last.settled.error \notin {Undefined, Str("")}
                     THEN last.settled.error.v ELSE "Unknown error")

\* a response {error: ''} reported as 'Unknown error'
C23_Witness ==
  /\ Completed
  /\ last.settled = Resolved(Undefined, Str(""))
  /\ rec.error = "Unknown error"
  /\ last.result = Failure("Unknown error")

\* the executions dispatched so far whose record snapshots are kept: those
\* in flight and the one that completed last
Dispatched ==
  {inflight[i] : i \in DOMAIN inflight} \cup (IF last.kind = "done" THEN {last} ELSE {})

\* the record right after clear() and setLoading(true)
Cleared(r) == r.loading /\ r.error = "" /\ status(r) = "loading"

\* a step in which a callable was invoked and dispatched an execution whose
\* facade method returned a promise
DispatchStep == Len(inflight') = Len(inflight) + 1

\* a step in which a callable was invoked and its facade method threw before
\* returning a promise: the execution was over when the callable returned
SyncThrowStep ==
  /\ Len(inflight') = Len(inflight)
  /\ last'.kind = "done"
  /\ <<rec, inflight, last>>' # <<rec, inflight, last>>

\* C24: at the moment the facade method is invoked, and as soon as the
\* dispatching call has returned its promise, the record has loading = true,
\* status 'loading' and error = "".
C24_LoadingAtDispatch ==
  /\ [](\A c \in Dispatched : Cleared(c.atCall))
  /\ [][(DispatchStep \/ SyncThrowStep) => Cleared(rec')]_vars

\* C24 (amended): the record is so at the moment the facade method is
\* invoked and, when the facade method returned a promise, as soon as the
\* dispatching call has returned; when the facade method threw synchronously
\* the dispatching call returns with loading = false and the error set.
C24_LoadingAtCall ==
  /\ [](\A c \in Dispatched : Cleared(c.atCall))
  /\ [][/\ DispatchStep
           => Cleared(rec') /\ rec' = inflight'[Len(inflight')].atCall
        /\ SyncThrowStep
           => ~rec'.loading /\ rec'.error = last'.result.error.v]_vars

\* a call dispatched after an earlier one had left an error: the record is
\* loading and the error is gone
C24_Witness ==
  /\ last.kind = "done"
  /\ last.path = "apiError"
  /\ last.result = Failure("E1")
  /\ Len(inflight) = 1
  /\ ~inflight[1].overlapped
  /\ inflight[1].atCall = rec
  /\ rec.loading
  /\ rec.error = ""

\* the execution whose promise holds slot n is in flight
Pending(n) == \E i \in DOMAIN inflight : inflight[i].slot = n

\* C25: if every facade call eventually settles, every dispatched execution
\* eventually completes and whenever loading is true it eventually becomes
\* false, for any number of overlapping dispatches.
C25_EveryExecutionCompletes ==
  /\ \A n \in 1..MaxInFlight : Pending(n) ~> ~Pending(n)
  /\ rec.loading ~> ~rec.loading

\* the younger of two overlapping executions has completed and nothing is
\* in flight any more
C25_Witness ==
  /\ last.kind = "done"
  /\ last.slot = 2
  /\ last.youngerDone = FALSE
  /\ inflight = <<>>
  /\ ~rec.loading

OutcomeOf(c) == ApplyOps([data |-> c.dataBefore, loading |-> FALSE, error |-> ""], c.ops)

\* C27: if an action is dispatched only while loading is false, at most one
\* call is ever in flight, loading is true exactly while that call is in
\* flight, and after each completion the record holds the outcome of the
\* most recently dispatched call.
C27_GuardedDispatch ==
  /\ Len(inflight) <= 1
  /\ rec.loading <=> inflight # <<>>
  /\ \A i \in DOMAIN inflight : ~inflight[i].overlapped
  /\ (last.kind = "done" /\ inflight = <<>>) => ~last.overlapped /\ rec = OutcomeOf(last)

\* a second call, dispatched after the first had left D1, has left D2
C27_Witness ==
  /\ last.kind = "done"
  /\ inflight = <<>>
  /\ last.dataBefore = D1
  /\ last.result = Success(D2)
  /\ rec = [data |-> D2, loading |-> FALSE, error |-> ""]

\* C28: whenever the base64 record holds data, its base64 value and its
\* originalText come from the same request: base64 is the encoding the
\* backend produced for originalText.
C28_Base64MatchesText ==
  rec.data # Null
    => /\ rec.data.t = "object"
       /\ rec.data.x \in {"Hi", "Man"}
       /\ rec.data.v = ToBase64(Utf8(rec.data.x))

\* the older of two overlapping encodings with different texts completed
\* last and the record holds its pair
C28_Witness ==
  /\ Completed
  /\ last.youngerDone
  /\ last.youngerResult.success
  /\ last.youngerResult.data.x = "Man"
  /\ last.payload = TextRequest(Str("Hi"))
  /\ rec.data = [t |-> "object", v |-> "SGk=", x |-> "Hi"]

\* C29: a callable produced by createApiAction resolves the default Executor
\* at each invocation, not at creation: every execution it started runs on
\* the facade that was the default when the callable was invoked, whatever
\* the default was when the callable was created and whatever it has become
\* since; an invocation is a misuse only if no default is installed then.
C29_DefaultResolvedAtInvocation ==
  /\ \A c \in Dispatched : c.via = "default" => c.svc = c.dflt /\ c.dflt # "null"
  /\ last.kind = "misuse" => last.dflt = "null"

\* a callable created before any default was installed ran on s1, completed
\* on s1 after the default had become s2, and its next invocation runs on s2
C29_Witness ==
  /\ actions["a1"].via = "default"
  /\ actions["a1"].dfltAtCreation = "null"
  /\ last.kind = "done"
  /\ last.svc = "s1"
  /\ defaultAsyncManager = "s2"
  /\ Len(inflight) = 1
  /\ inflight[1].svc = "s2"

\* C30: a misuse invocation (no default Executor installed) performs no part
\* of the execution: it calls no State Record operation and no facade
\* method, and every step taken while no default is installed leaves the
\* record and the executions in flight as they were.
C30_MisuseTouchesNothing ==
  /\ [](last.kind = "misuse"
          => /\ last.ops = <<>>
             /\ last.calls = <<>>
             /\ last.result = Throws(Err(NotInitialized)))
  /\ [][defaultAsyncManager = "null"
          => rec' = rec /\ inflight' = inflight /\ ~rec'.loading]_vars

\* the callable was invoked before setDefaultApiService: the record is as
\* constructed
C30_Witness ==
  /\ last.kind = "misuse"
  /\ actions["a1"].created
  /\ defaultAsyncManager = "null"
  /\ rec = NewBaseApiState(Null)
  /\ inflight = <<>>

====
